---- MODULE Spec2Model ----
(***************************************************************************)
(* Model of the live-like archival core:                                   *)
(*   - Chat Verifier : web-app/src/components/chat/display.rs (Display)    *)
(*   - Chronicler    : streamer-app/src/chronicler.rs (Chronicler)         *)
(* Each handler of the two components is one action.  The two components   *)
(* share no state; SpecChat and SpecChron are their specifications.        *)
(***************************************************************************)
EXTENDS Integers, Sequences, FiniteSets, TLC

(***************************************************************************)
(* Bounds of the model.                                                    *)
(***************************************************************************)
MaxFrames == 4

(***************************************************************************)
(* Chat Verifier: inputs.                                                  *)
(***************************************************************************)
\* transport-reported senders (PubsubSubResponse.from)
Peers == {"P", "Q"}

\* origins carried by UnsignedMessage: CIDs of SignedMessage blocks
Cids == {"CA", "CB", "CX"}

\* message texts carried by UnsignedMessage
Texts == {"hi"}

\* The CAS is content addressed: a CID names one immutable SignedMessage.
\*   CA: signed by P, signature good     CB: signed by Q, signature good
\*   CX: claims peer P, signature bad
SignedMessageOf(c) ==
    CASE c = "CA" -> [address |-> "A1", data |-> [peer_id |-> "P", name |-> "alice"], sig_ok |-> TRUE]
      [] c = "CB" -> [address |-> "A2", data |-> [peer_id |-> "Q", name |-> "bob"], sig_ok |-> TRUE]
      [] OTHER    -> [address |-> "A3", data |-> [peer_id |-> "P", name |-> "mallory"], sig_ok |-> FALSE]

\* SignedMessage::verify(): a pure function of the record
verify(sign_msg) == sign_msg.sig_ok

VARIABLES
    \* ---- Display (display.rs:22-38)
    trusted_identities,   \* HashMap<Cid, ([u8; 20], Content)>
    msg_buffer,           \* Vec<(String, UnsignedMessage)>: the parking lot
    next_id,              \* usize
    chat_messages,        \* VecDeque<MessageData>: the display queue
    \* ---- environment of Display
    pending_gets,         \* dag_get calls spawned and not yet completed, per cid
    hung,                 \* TRUE once a handler spins forever (the executor is single threaded)
    drop_sig,             \* Rc<AtomicBool> shared by Display and the frame loop of pubsub_sub
    sub_open,             \* TRUE while the frame loop of pubsub_sub has not returned
    \* ---- history of the run
    nframes,              \* transport frames delivered so far
    ncalls,               \* handler invocations so far
    received,             \* <<sender, origin>> of every UnsignedMessage delivered
    emitted,              \* every push_back on chat_messages, in order
    last_call             \* the last handler invocation and the state it started from

chatVars == <<trusted_identities, msg_buffer, next_id, chat_messages,
              pending_gets, hung, drop_sig, sub_open, nframes, ncalls, received, emitted,
              last_call>>

subVars == <<drop_sig, sub_open>>

VARIABLES
    \* ---- Chronicler (chronicler.rs:22-34)
    segment_duration,     \* config.video_segment_duration
    pin_stream,           \* config.pin_stream
    video_chat_buffer,    \* VecDeque<SecondNode>
    second_cap,           \* video_chat_buffer.capacity()
    minute_node,          \* MinuteNode.links_to_seconds
    minute_cap,           \* minute_node.links_to_seconds.capacity()
    hour_node,            \* HourNode.links_to_minutes
    hour_cap,             \* hour_node.links_to_minutes.capacity()
    day_node,             \* DayNode.links_to_hours
    pc,                   \* position of collect(): "recv", or the await it is suspended at
    timecode,             \* finalize: cid of the DayNode put
    \* ---- environment of the Chronicler
    puts,                 \* every dag_put issued, in order, with its outcome
    pins,                 \* every pin_add issued, in order, with its outcome
    stdout,               \* lines printed with println! that carry the stream cid
    \* ---- history of the run
    nevents,              \* events received so far
    nvideo,               \* Video events received so far
    nchat,                \* Chat events received so far
    nfinal,               \* Finalize events received so far
    nfail,                \* CAS calls that failed so far
    nrepeat,              \* Video events that repeated the previous cid
    last_event,           \* the event being handled, or handled last
    log                   \* every event received, in order

chronVars == <<segment_duration, pin_stream, video_chat_buffer, second_cap,
               minute_node, minute_cap, hour_node, hour_cap, day_node, pc, timecode,
               puts, pins, stdout, nevents, nvideo, nchat, nfinal, nfail, nrepeat,
               last_event, log>>

VARIABLES
    \* ---- transport payload (viewer-app/src/pubsub.rs)
    input,                \* the payload string published: a sequence of code points
    encoded,              \* the data field of the frame: Base64Pad symbols
    output,               \* what the subscriber decodes: from_utf8 of the decoded bytes
    codec_pc              \* "idle", "sent" (frame in flight) or "decoded"

codecVars == <<input, encoded, output, codec_pc>>

bufferVars == <<video_chat_buffer, second_cap, minute_node, minute_cap,
                hour_node, hour_cap, day_node>>

configVars == <<segment_duration, pin_stream>>

countVars == <<nevents, nvideo, nchat, nfinal, nrepeat, last_event, log>>

NoCall == [handler |-> "none", cid |-> "none", ok |-> FALSE, from |-> "none",
           parked |-> <<>>, cached |-> {}, shown |-> 0]

ChatInit ==
    /\ trusted_identities = <<>>
    /\ msg_buffer = <<>>
    /\ next_id = 0
    /\ chat_messages = <<>>
    /\ pending_gets = [c \in Cids |-> 0]
    /\ hung = FALSE
    /\ drop_sig = FALSE
    /\ sub_open = TRUE
    /\ nframes = 0
    /\ ncalls = 0
    /\ received = {}
    /\ emitted = <<>>
    /\ last_call = NoCall

(***************************************************************************)
(* Display: helpers.                                                       *)
(***************************************************************************)
\* MessageData::new(id, img data, name, message)
MessageData(id, addrs, name, message) ==
    [id |-> id, img |-> addrs, name |-> name, message |-> message]

\* chat_messages.push_back(m); if len >= 10 { pop_front() }
PushMessage_NoEvict(queue, m) == Append(queue, m)

\* a queue that evicts only once it holds more than ten
PushMessage_EvictAbove(queue, m) ==
    LET q == Append(queue, m)
    IN  IF Len(q) > 10 THEN Tail(q) ELSE q

PushMessage(queue, m) ==
    LET q == Append(queue, m)
    IN  IF Len(q) >= 10 THEN Tail(q) ELSE q

\* a removal that leaves the entry where it is
SwapRemove_Keep(buf, k) == buf

\* Vec::swap_remove(k): element k is replaced by the last one (1-based k)
SwapRemove(buf, k) ==
    LET n == Len(buf)
    IN  [j \in 1..(n - 1) |-> IF j = k THEN buf[n] ELSE buf[j]]

\* a cache of one entry: inserting evicts what was there
insert_Evicting(map, k, v) == [c \in {k} |-> v]

\* HashMap::insert(k, v): the entry of k is set to v, the others are kept
insert(map, k, v) ==
    [c \in DOMAIN map \cup {k} |-> IF c = k THEN v ELSE map[c]]

\* drop_sig.load(Ordering::Relaxed) in the frame loop, which runs on the
\* thread that stores the signal
load_Unset(sig) == FALSE

load(sig) == sig

\* the cache-hit test of on_pubsub_update
CacheHit_AnySender(content, from) == TRUE

CacheHit(content, from) == content.peer_id = from

\* the emission test of the scan in on_signed_msg
ShouldEmit_NoVerify(peer_id, sign_msg, verified) == peer_id = sign_msg.data.peer_id

ShouldEmit_NoPeer(peer_id, sign_msg, verified) == verified

ShouldEmit(peer_id, sign_msg, verified) ==
    peer_id = sign_msg.data.peer_id /\ verified

\* the insertion test that closes on_signed_msg
ShouldInsert_Always(verified) == TRUE

ShouldInsert(verified) == verified

\* The while loop of on_signed_msg.  i is the loop variable, buf the parking
\* lot, out the entries emitted so far (in emission order).  `continue`
\* without `i -= 1` re-enters the loop in the same state: the loop spins.
RECURSIVE ScanBuffer(_, _, _, _, _, _)
ScanBuffer(i, buf, out, cid, sign_msg, verified) ==
    IF i = 0
    THEN [buf |-> buf, out |-> out, spins |-> FALSE]
    ELSE LET entry == buf[i]
         IN  IF cid # entry.msg.origin
             THEN [buf |-> buf, out |-> out, spins |-> TRUE]
             ELSE ScanBuffer(i - 1, SwapRemove(buf, i),
                             IF ShouldEmit(entry.peer_id, sign_msg, verified)
                             THEN Append(out, entry) ELSE out,
                             cid, sign_msg, verified)

\* the display queue after pushing the entries of out, ids counted from id
RECURSIVE PushAll(_, _, _, _)
PushAll(queue, out, id, sign_msg) ==
    IF out = <<>>
    THEN queue
    ELSE PushAll(PushMessage(queue, MessageData(id, sign_msg.address, sign_msg.data.name,
                                                Head(out).msg.message)),
                 Tail(out), id + 1, sign_msg)

\* history records of the entries of out, emitted by handler invocation call
Emissions(out, call) ==
    [k \in 1..Len(out) |->
        [frame |-> out[k].frame, sender |-> out[k].peer_id,
         origin |-> out[k].msg.origin, message |-> out[k].msg.message, call |-> call,
         via |-> "signed"]]

(***************************************************************************)
(* Display::on_pubsub_update                                               *)
(***************************************************************************)
\* a frame whose payload is not an UnsignedMessage: the frame loop delivers
\* it, the handler drops it
on_pubsub_update_err ==
    /\ ~hung
    /\ sub_open /\ ~load(drop_sig)
    /\ nframes' = nframes + 1
    /\ ncalls' = ncalls + 1
    /\ last_call' = [NoCall EXCEPT !.handler = "pubsub_err", !.parked = msg_buffer,
                                   !.cached = DOMAIN trusted_identities, !.shown = Len(emitted)]
    /\ UNCHANGED <<trusted_identities, msg_buffer, next_id, chat_messages,
                   pending_gets, hung, received, emitted>>
    /\ UNCHANGED subVars
    /\ UNCHANGED chronVars
    /\ UNCHANGED codecVars

on_pubsub_update(from, msg) ==
    /\ ~hung
    /\ sub_open /\ ~load(drop_sig)
    /\ nframes' = nframes + 1
    /\ received' = received \cup {<<from, msg.origin>>}
    /\ ncalls' = ncalls + 1
    /\ last_call' = [NoCall EXCEPT !.handler = "pubsub", !.cid = msg.origin, !.ok = TRUE,
                                   !.from = from, !.parked = msg_buffer,
                                   !.cached = DOMAIN trusted_identities, !.shown = Len(emitted)]
    /\ IF msg.origin \in DOMAIN trusted_identities
       THEN LET addrs   == trusted_identities[msg.origin][1]
                content == trusted_identities[msg.origin][2]
            IN  IF CacheHit(content, from)
                THEN /\ chat_messages' = PushMessage(chat_messages,
                                            MessageData(next_id, addrs, content.name, msg.message))
                     /\ next_id' = next_id + 1
                     /\ emitted' = Append(emitted,
                                     [frame |-> nframes + 1, sender |-> from, origin |-> msg.origin,
                                      message |-> msg.message, call |-> ncalls + 1,
                                      via |-> "cache"])
                     /\ UNCHANGED <<trusted_identities, msg_buffer, pending_gets, hung>>
                ELSE UNCHANGED <<trusted_identities, msg_buffer, next_id, chat_messages,
                                 pending_gets, hung, emitted>>
       ELSE /\ msg_buffer' = Append(msg_buffer,
                                [peer_id |-> from, msg |-> msg, frame |-> nframes + 1])
            /\ pending_gets' = [pending_gets EXCEPT ![msg.origin] = @ + 1]
            /\ UNCHANGED <<trusted_identities, next_id, chat_messages, hung, emitted>>
    /\ UNCHANGED subVars
    /\ UNCHANGED chronVars
    /\ UNCHANGED codecVars

(***************************************************************************)
(* Display::on_signed_msg: completion of one spawned dag_get               *)
(***************************************************************************)
on_signed_msg_err(cid) ==
    /\ ~hung
    /\ pending_gets[cid] > 0
    /\ pending_gets' = [pending_gets EXCEPT ![cid] = @ - 1]
    /\ ncalls' = ncalls + 1
    /\ last_call' = [NoCall EXCEPT !.handler = "signed", !.cid = cid, !.ok = FALSE,
                                   !.parked = msg_buffer,
                                   !.cached = DOMAIN trusted_identities, !.shown = Len(emitted)]
    /\ UNCHANGED <<trusted_identities, msg_buffer, next_id, chat_messages,
                   hung, nframes, received, emitted>>
    /\ UNCHANGED subVars
    /\ UNCHANGED chronVars
    /\ UNCHANGED codecVars

on_signed_msg(cid) ==
    /\ ~hung
    /\ pending_gets[cid] > 0
    /\ pending_gets' = [pending_gets EXCEPT ![cid] = @ - 1]
    /\ ncalls' = ncalls + 1
    /\ last_call' = [NoCall EXCEPT !.handler = "signed", !.cid = cid, !.ok = TRUE,
                                   !.parked = msg_buffer,
                                   !.cached = DOMAIN trusted_identities, !.shown = Len(emitted)]
    /\ LET sign_msg == SignedMessageOf(cid)
           verified == verify(sign_msg)
           scan     == ScanBuffer(Len(msg_buffer), msg_buffer, <<>>, cid, sign_msg, verified)
       IN  /\ msg_buffer' = scan.buf
           /\ chat_messages' = PushAll(chat_messages, scan.out, next_id, sign_msg)
           /\ next_id' = next_id + Len(scan.out)
           /\ emitted' = emitted \o Emissions(scan.out, ncalls + 1)
           /\ hung' = scan.spins
           /\ IF ~scan.spins /\ ShouldInsert(verified)
              THEN trusted_identities' =
                       insert(trusted_identities, cid, <<sign_msg.address, sign_msg.data>>)
              ELSE UNCHANGED trusted_identities
    /\ UNCHANGED <<nframes, received>>
    /\ UNCHANGED subVars
    /\ UNCHANGED chronVars
    /\ UNCHANGED codecVars

(***************************************************************************)
(* IpfsService::pubsub_sub (the frame loop) and Display::destroy           *)
(***************************************************************************)
\* the request fails, or a line is read that is an io error, not the JSON of
\* a PubsubSubResponse, or whose from or data is not base64: the callback is
\* given the Err and pubsub_sub returns
pubsub_sub_err ==
    /\ ~hung
    /\ sub_open /\ ~load(drop_sig)
    /\ sub_open' = FALSE
    /\ ncalls' = ncalls + 1
    /\ last_call' = [NoCall EXCEPT !.handler = "pubsub_sub_err", !.parked = msg_buffer,
                                   !.cached = DOMAIN trusted_identities, !.shown = Len(emitted)]
    /\ UNCHANGED <<trusted_identities, msg_buffer, next_id, chat_messages,
                   pending_gets, hung, drop_sig, nframes, received, emitted>>
    /\ UNCHANGED chronVars
    /\ UNCHANGED codecVars

\* a line is read with the drop signal set: pubsub_sub returns
pubsub_sub_dropped ==
    /\ ~hung
    /\ sub_open /\ load(drop_sig)
    /\ sub_open' = FALSE
    /\ UNCHANGED <<trusted_identities, msg_buffer, next_id, chat_messages,
                   pending_gets, hung, drop_sig, nframes, ncalls, received, emitted,
                   last_call>>
    /\ UNCHANGED chronVars
    /\ UNCHANGED codecVars

\* Display::destroy
destroy ==
    /\ ~hung
    /\ ~drop_sig
    /\ drop_sig' = TRUE
    /\ UNCHANGED <<trusted_identities, msg_buffer, next_id, chat_messages,
                   pending_gets, hung, sub_open, nframes, ncalls, received, emitted,
                   last_call>>
    /\ UNCHANGED chronVars
    /\ UNCHANGED codecVars

ChatNext ==
    \/ /\ nframes < MaxFrames
       /\ on_pubsub_update_err
    \/ /\ nframes < MaxFrames
       /\ \E from \in Peers, origin \in Cids, text \in Texts :
              on_pubsub_update(from, [message |-> text, origin |-> origin])
    \/ \E cid \in Cids : on_signed_msg_err(cid)
    \/ \E cid \in Cids : on_signed_msg(cid)

\* origins of the frames of a subscription that ends
SubCids == {"CA", "CX"}

\* the Chat Verifier from the subscription to its end: frames, identity
\* arrivals, a failing read and the drop signal
SubNext ==
    \/ /\ nframes < MaxFrames
       /\ on_pubsub_update_err
    \/ /\ nframes < MaxFrames
       /\ \E from \in Peers, origin \in SubCids, text \in Texts :
              on_pubsub_update(from, [message |-> text, origin |-> origin])
    \/ \E cid \in SubCids : on_signed_msg_err(cid)
    \/ \E cid \in SubCids : on_signed_msg(cid)
    \/ pubsub_sub_err
    \/ pubsub_sub_dropped
    \/ destroy

\* frames delivered in one run of a single author: more than the display
\* queue retains
MaxDisplayFrames == 11

\* a single author: every frame comes from P with origin CA, whose record
\* verifies and names P; the get of CA may fail
DisplayNext ==
    \/ /\ nframes < MaxDisplayFrames
       /\ \E text \in Texts : on_pubsub_update("P", [message |-> text, origin |-> "CA"])
    \/ on_signed_msg_err("CA")
    \/ on_signed_msg("CA")

(***************************************************************************)
(* Chat Verifier: properties.                                              *)
(***************************************************************************)
\* the SignedMessage handled by the last on_signed_msg call
LastSigned == SignedMessageOf(last_call.cid)

\* the last handler was on_signed_msg with an Ok response
LastWasSignedOk == last_call.handler = "signed" /\ last_call.ok

\* entries of the parking lot, as the last handler found it, parked for origin c
ParkedFor(c) == {j \in 1..Len(last_call.parked) : last_call.parked[j].msg.origin = c}

\* emissions made by the last handler, in emission order
LastEmissions == SubSeq(emitted, last_call.shown + 1, Len(emitted))

\* number of emissions made for transport frame f
TimesEmitted(f) == Cardinality({k \in 1..Len(emitted) : emitted[k].frame = f})

\* C1: no message is ever pushed to the display queue for an origin whose
\* SignedMessage fails verify(), neither by on_signed_msg nor by the cache path.
C1_NoEmissionForUnverified ==
    \A k \in 1..Len(emitted) : verify(SignedMessageOf(emitted[k].origin))

\* an unverified record arrived while a message from the peer it names was parked for it
C1_Witness ==
    /\ LastWasSignedOk
    /\ ~verify(LastSigned)
    /\ \E j \in ParkedFor(last_call.cid) :
           last_call.parked[j].peer_id = LastSigned.data.peer_id
    /\ Len(emitted) = last_call.shown

\* C2: once the handler that emitted m has returned, the identity cache holds
\* m.origin and the cached peer_id is the transport sender of m.
C2_EmittedOriginCached ==
    \A k \in 1..Len(emitted) :
        (hung => emitted[k].call # ncalls) =>
            /\ emitted[k].origin \in DOMAIN trusted_identities
            /\ trusted_identities[emitted[k].origin][2].peer_id = emitted[k].sender

\* messages were emitted by the cache-hit path and by on_signed_msg
C2_Witness ==
    /\ ~hung
    /\ \E k \in 1..Len(emitted) : emitted[k].via = "cache"
    /\ \E k \in 1..Len(emitted) : emitted[k].via = "signed"

\* C3 (as claimed): a cache entry for C exists only if the record of C verified
\* and its peer_id was the transport sender of a message received for C; with
\* one message parked for C from P and a record naming Q # P, on_signed_msg
\* emits nothing and inserts nothing.
C3_CacheOnlyVerifiedAndMatched ==
    /\ \A c \in DOMAIN trusted_identities :
           /\ verify(SignedMessageOf(c))
           /\ <<SignedMessageOf(c).data.peer_id, c>> \in received
    /\ (/\ LastWasSignedOk
        /\ Cardinality(ParkedFor(last_call.cid)) = 1
        /\ \A j \in ParkedFor(last_call.cid) :
               last_call.parked[j].peer_id # LastSigned.data.peer_id)
       => /\ Len(emitted) = last_call.shown
          /\ last_call.cid \notin DOMAIN trusted_identities

\* C3 (amended): a cache entry for C exists only if the record of C verified,
\* and it holds the record's (address, data); with one message parked for C
\* from P and a record naming Q # P, on_signed_msg emits nothing, and it
\* inserts cache[C] exactly when the record verified and the handler returned.
C3_CacheOnlyVerified ==
    /\ \A c \in DOMAIN trusted_identities :
           /\ verify(SignedMessageOf(c))
           /\ trusted_identities[c] = <<SignedMessageOf(c).address, SignedMessageOf(c).data>>
    /\ (/\ LastWasSignedOk
        /\ Cardinality(ParkedFor(last_call.cid)) = 1
        /\ \A j \in ParkedFor(last_call.cid) :
               last_call.parked[j].peer_id # LastSigned.data.peer_id)
       => /\ Len(emitted) = last_call.shown
          /\ last_call.cid \in DOMAIN trusted_identities <=> (verify(LastSigned) /\ ~hung)

\* a verified record naming Q arrived for the single parked message, sent by P # Q, and was cached
C3_Witness ==
    /\ LastWasSignedOk
    /\ verify(LastSigned)
    /\ Len(last_call.parked) = 1
    /\ last_call.parked[1].msg.origin = last_call.cid
    /\ last_call.parked[1].peer_id # LastSigned.data.peer_id
    /\ last_call.cid \in DOMAIN trusted_identities
    /\ emitted = <<>>

\* C4: when the record of C arrives verified with peer_id P, every message
\* parked as (P, msg) with origin C is emitted exactly once and cache[C] is set
\* to (address, data), whatever else is parked; nothing is emitted twice.
C4_ParkedEmittedOnceAndCached ==
    /\ (LastWasSignedOk /\ verify(LastSigned))
       => /\ \A j \in ParkedFor(last_call.cid) :
                 last_call.parked[j].peer_id = LastSigned.data.peer_id
                     => TimesEmitted(last_call.parked[j].frame) = 1
          /\ last_call.cid \in DOMAIN trusted_identities
          /\ trusted_identities[last_call.cid] = <<LastSigned.address, LastSigned.data>>
    /\ \A f \in 1..nframes : TimesEmitted(f) <= 1

\* C5: when several messages parked for C (and nothing else) await a record
\* that verifies with a matching peer_id, on_signed_msg emits them in the
\* order in which they were parked and leaves no entry for C parked.
C5_ParkedEmittedInArrivalOrder ==
    (/\ LastWasSignedOk
     /\ verify(LastSigned)
     /\ Len(last_call.parked) >= 2
     /\ \A j \in 1..Len(last_call.parked) :
            /\ last_call.parked[j].msg.origin = last_call.cid
            /\ last_call.parked[j].peer_id = LastSigned.data.peer_id)
    => /\ Len(LastEmissions) = Len(last_call.parked)
       /\ \A j \in 1..Len(LastEmissions) : LastEmissions[j].frame = last_call.parked[j].frame
       /\ \A j \in 1..Len(msg_buffer) : msg_buffer[j].msg.origin # last_call.cid

(***************************************************************************)
(* Chronicler: inputs and bounds.                                          *)
(***************************************************************************)
\* Video events handled in one run
MaxVideo == 3

\* Video events handled in one clean broadcast (scenario S1 feeds 30)
MaxBroadcast == 30

\* Chat events handled in one run
MaxChat == 2

\* Finalize events handled in one run
MaxFinalize == 1

\* CAS calls (dag_put, pin_add) that fail in one run
MaxFail == 2

\* Video events that repeat the cid of the previous Video event
MaxRepeat == 1

\* config.video_segment_duration: 60 divides 60 and flushes every segment, 8
\* does not divide 60 and buffers 15 segments
Durations == {8, 60}

\* config.video_segment_duration of the runs with chat: the window holds 3 segments
ChatDurations == {40}

\* config.video_segment_duration of scenario S1, and one that does not divide 60
BroadcastDurations == {4, 40}

\* VecDeque::with_capacity(n).capacity() is "at least n".  The ring buffer of
\* std before 1.67 rounds n + 1 up to a power of two and keeps one slot free.
RECURSIVE NextPowerOfTwo(_, _)
NextPowerOfTwo(n, p) == IF p >= n THEN p ELSE NextPowerOfTwo(n, 2 * p)

RingCapacity(n) == NextPowerOfTwo(IF n + 1 > 2 THEN n + 1 ELSE 2, 1) - 1

DequeCapacities(n) == {n, RingCapacity(n)}

\* dag_put: the CID is a function of the bytes written
Cid(json) == <<"cid", json>>

\* IPLDLink { link: cid }
IPLDLink(cid) == [link |-> cid]

\* Chronicler::new, for a configuration among durations and pinning
ChroniclerNew(durations, pinning) ==
    /\ segment_duration \in durations
    /\ pin_stream \in pinning
    /\ video_chat_buffer = <<>>
    /\ second_cap \in DequeCapacities(120 \div segment_duration)
    /\ minute_node = <<>>
    /\ minute_cap = 60
    /\ hour_node = <<>>
    /\ hour_cap = 60
    /\ day_node = <<>>
    /\ pc = "recv"
    /\ timecode = <<"none">>
    /\ puts = <<>>
    /\ pins = <<>>
    /\ stdout = <<>>
    /\ nevents = 0
    /\ nvideo = 0
    /\ nchat = 0
    /\ nfinal = 0
    /\ nfail = 0
    /\ nrepeat = 0
    /\ last_event = [kind |-> "none", arg |-> 0]
    /\ log = <<>>

(***************************************************************************)
(* Chronicler: helpers.                                                    *)
(***************************************************************************)
\* serde_json::to_string of a SecondNode (born is history, not a field)
SecondJson(node) ==
    [link_to_video |-> node.link_to_video, links_to_chat |-> node.links_to_chat]

MinuteJson(links) == [links_to_seconds |-> links]

HourJson(links) == [links_to_minutes |-> links]

DayJson(links) == [links_to_hours |-> links]

StreamJson(cid) == [timecode |-> IPLDLink(cid)]

\* one dag_put call: what was written, whether it succeeded, during which event
PutRecord(kind, json, ok) == [kind |-> kind, json |-> json, ok |-> ok, event |-> nevents]

\* a CAS call may fail while the failure budget lasts
Outcomes == IF nfail < MaxFail THEN BOOLEAN ELSE {TRUE}

\* Vec::push on a full Vec reallocates: RawVec::grow_amortized
VecCapAfterPush(len, cap) ==
    IF len < cap THEN cap
    ELSE LET double == 2 * cap
             needed == len + 1
             larger == IF double > needed THEN double ELSE needed
         IN  IF larger > 4 THEN larger ELSE 4

\* capacity of a Vec of length len <= cap after n more pushes: the pushes up
\* to cap leave it alone, the push onto the full Vec reallocates
RECURSIVE VecCapAfterPushes(_, _, _)
VecCapAfterPushes(len, cap, n) ==
    IF len + n <= cap THEN cap
    ELSE VecCapAfterPushes(cap + 1, VecCapAfterPush(cap, cap), len + n - cap - 1)

\* for _ in 0..video_segment_duration { links_to_seconds.push(link.clone()) }
Replicate_Once(link, n) == <<link>>

Replicate(link, n) == [k \in 1..n |-> link]

\* the first node of the buffer whose video link equals the timestamp; 0 if none
MatchingSlot_Last(buffer, timestamp) ==
    LET hits == {k \in 1..Len(buffer) : buffer[k].link_to_video = timestamp}
    IN  IF hits = {} THEN 0 ELSE CHOOSE k \in hits : \A j \in hits : j <= k

MatchingSlot_OrFirst(buffer, timestamp) ==
    LET hits == {k \in 1..Len(buffer) : buffer[k].link_to_video = timestamp}
    IN  IF hits = {} THEN (IF buffer = <<>> THEN 0 ELSE 1)
        ELSE CHOOSE k \in hits : \A j \in hits : k <= j

MatchingSlot(buffer, timestamp) ==
    LET hits == {k \in 1..Len(buffer) : buffer[k].link_to_video = timestamp}
    IN  IF hits = {} THEN 0 ELSE CHOOSE k \in hits : \A j \in hits : k <= j

\* VecDeque::pop_back: the youngest node leaves the buffer
PopFront_Back(buffer) ==
    [node |-> buffer[Len(buffer)], rest |-> SubSeq(buffer, 1, Len(buffer) - 1)]

\* VecDeque::pop_front: the oldest node leaves the buffer
PopFront(buffer) == [node |-> Head(buffer), rest |-> Tail(buffer)]

\* a day buffer that stops taking links at its initial capacity of 24
push_hour_Capped(links, link) == IF Len(links) < 24 THEN Append(links, link) ELSE links

\* day_node.links_to_hours.push(link)
push_hour(links, link) == Append(links, link)

\* finalize is never resumed once the second buffer is drained
AfterDrain_Suspended(minute, hour) == "finalize_suspended"

AfterDrain_SkipMinute(minute, hour) ==
    IF hour # <<>> THEN "finalize_collect_hour" ELSE "finalize_day"

\* where finalize continues once the second buffer is drained
AfterDrain(minute, hour) ==
    IF minute # <<>> THEN "finalize_collect_minute"
    ELSE IF hour # <<>> THEN "finalize_collect_hour"
    ELSE "finalize_day"

(***************************************************************************)
(* Chronicler::collect: one event is received and dispatched               *)
(***************************************************************************)
\* archive_chat_message(msg), whole: at most one dag_put
archive_chat_message(timestamp, ok) ==
    /\ pc = "recv"
    /\ nevents' = nevents + 1
    /\ nchat' = nchat + 1
    /\ last_event' = [kind |-> "Chat", arg |-> timestamp]
    /\ log' = Append(log, last_event')
    /\ LET msg  == [data |-> [timestamp |-> IPLDLink(timestamp), message |-> nevents + 1]]
           slot == MatchingSlot(video_chat_buffer, msg.data.timestamp)
       IN  IF slot = 0
           THEN /\ ok
                /\ UNCHANGED <<video_chat_buffer, puts, nfail>>
           ELSE /\ puts' = Append(puts, [kind |-> "chat", json |-> msg, ok |-> ok,
                                         event |-> nevents + 1])
                /\ nfail' = IF ok THEN nfail ELSE nfail + 1
                /\ video_chat_buffer' =
                       IF ok
                       THEN [video_chat_buffer EXCEPT ![slot].links_to_chat =
                                                          Append(@, IPLDLink(Cid(msg)))]
                       ELSE video_chat_buffer
    /\ UNCHANGED <<configVars, second_cap, minute_node, minute_cap, hour_node, hour_cap,
                   day_node, pc, timecode, pins, stdout, nvideo, nfinal, nrepeat>>
    /\ UNCHANGED chatVars
    /\ UNCHANGED codecVars

\* archive_video_segment(cid) up to its first await
archive_video_segment(cid) ==
    /\ pc = "recv"
    /\ nevents' = nevents + 1
    /\ nvideo' = nvideo + 1
    /\ nrepeat' = IF cid = nvideo THEN nrepeat + 1 ELSE nrepeat
    /\ last_event' = [kind |-> "Video", arg |-> cid]
    /\ log' = Append(log, last_event')
    /\ LET second_node == [link_to_video |-> IPLDLink(cid), links_to_chat |-> <<>>,
                           born |-> nevents + 1]
       IN  video_chat_buffer' = Append(video_chat_buffer, second_node)
    /\ pc' = IF Len(video_chat_buffer') < second_cap THEN "recv" ELSE "video_collect_second"
    /\ UNCHANGED <<configVars, second_cap, minute_node, minute_cap, hour_node, hour_cap,
                   day_node, timecode, puts, pins, stdout, nchat, nfinal, nfail>>
    /\ UNCHANGED chatVars
    /\ UNCHANGED codecVars

\* finalize up to its first await
finalize ==
    /\ pc = "recv"
    /\ nevents' = nevents + 1
    /\ nfinal' = nfinal + 1
    /\ last_event' = [kind |-> "Finalize", arg |-> 0]
    /\ log' = Append(log, last_event')
    /\ pc' = IF video_chat_buffer # <<>> THEN "finalize_collect_second"
             ELSE AfterDrain(minute_node, hour_node)
    /\ UNCHANGED <<configVars, bufferVars, timecode, puts, pins, stdout,
                   nvideo, nchat, nfail, nrepeat>>
    /\ UNCHANGED chatVars
    /\ UNCHANGED codecVars

\* archive_rx.recv() returns None: the senders are gone, collect returns
queue_closed ==
    /\ pc = "recv"
    /\ pc' = "returned"
    /\ UNCHANGED <<configVars, bufferVars, timecode, puts, pins, stdout, countVars, nfail>>
    /\ UNCHANGED chatVars
    /\ UNCHANGED codecVars

(***************************************************************************)
(* Chronicler: the tier flushes                                            *)
(***************************************************************************)
collect_second(ok) ==
    /\ pc \in {"video_collect_second", "finalize_collect_second"}
    /\ LET popped      == PopFront(video_chat_buffer)
           second_node == popped.node
           json        == SecondJson(second_node)
           link        == IPLDLink(Cid(json))
       IN  /\ video_chat_buffer' = popped.rest
           /\ puts' = Append(puts, [kind |-> "second", json |-> json, ok |-> ok,
                                    event |-> nevents, born |-> second_node.born])
           /\ IF ok
              THEN /\ minute_node' = minute_node \o Replicate(link, segment_duration)
                   /\ minute_cap' = VecCapAfterPushes(Len(minute_node), minute_cap,
                                                      Len(minute_node') - Len(minute_node))
              ELSE UNCHANGED <<minute_node, minute_cap>>
    /\ nfail' = IF ok THEN nfail ELSE nfail + 1
    /\ pc' = IF pc = "video_collect_second"
             THEN IF Len(minute_node') < minute_cap' THEN "recv" ELSE "video_collect_minute"
             ELSE IF video_chat_buffer' # <<>> THEN "finalize_collect_second"
                  ELSE AfterDrain(minute_node', hour_node)
    /\ UNCHANGED <<configVars, second_cap, hour_node, hour_cap, day_node, timecode,
                   pins, stdout, countVars>>
    /\ UNCHANGED chatVars
    /\ UNCHANGED codecVars

collect_minute(ok) ==
    /\ pc \in {"video_collect_minute", "finalize_collect_minute"}
    /\ LET json == MinuteJson(minute_node)
           link == IPLDLink(Cid(json))
       IN  /\ puts' = Append(puts, PutRecord("minute", json, ok))
           /\ IF ok
              THEN /\ minute_node' = <<>>
                   /\ hour_node' = Append(hour_node, link)
                   /\ hour_cap' = VecCapAfterPush(Len(hour_node), hour_cap)
              ELSE UNCHANGED <<minute_node, hour_node, hour_cap>>
    /\ nfail' = IF ok THEN nfail ELSE nfail + 1
    /\ pc' = IF pc = "video_collect_minute"
             THEN IF Len(hour_node') < hour_cap' THEN "recv" ELSE "video_collect_hour"
             ELSE IF hour_node' # <<>> THEN "finalize_collect_hour" ELSE "finalize_day"
    /\ UNCHANGED <<configVars, video_chat_buffer, second_cap, minute_cap, day_node,
                   timecode, pins, stdout, countVars>>
    /\ UNCHANGED chatVars
    /\ UNCHANGED codecVars

collect_hour(ok) ==
    /\ pc \in {"video_collect_hour", "finalize_collect_hour"}
    /\ LET json == HourJson(hour_node)
           link == IPLDLink(Cid(json))
       IN  /\ puts' = Append(puts, PutRecord("hour", json, ok))
           /\ IF ok
              THEN /\ hour_node' = <<>>
                   /\ day_node' = push_hour(day_node, link)
              ELSE UNCHANGED <<hour_node, day_node>>
    /\ nfail' = IF ok THEN nfail ELSE nfail + 1
    /\ pc' = IF pc = "video_collect_hour" THEN "recv" ELSE "finalize_day"
    /\ UNCHANGED <<configVars, video_chat_buffer, second_cap, minute_node, minute_cap,
                   hour_cap, timecode, pins, stdout, countVars>>
    /\ UNCHANGED chatVars
    /\ UNCHANGED codecVars

(***************************************************************************)
(* Chronicler::finalize after the tier flushes                             *)
(***************************************************************************)
finalize_day(ok) ==
    /\ pc = "finalize_day"
    /\ LET json == DayJson(day_node)
       IN  /\ puts' = Append(puts, PutRecord("day", json, ok))
           /\ timecode' = IF ok THEN Cid(json) ELSE timecode
    /\ nfail' = IF ok THEN nfail ELSE nfail + 1
    /\ pc' = IF ok THEN "finalize_stream" ELSE "recv"
    /\ UNCHANGED <<configVars, bufferVars, pins, stdout, countVars>>
    /\ UNCHANGED chatVars
    /\ UNCHANGED codecVars

finalize_stream(ok) ==
    /\ pc = "finalize_stream"
    /\ LET json       == StreamJson(timecode)
           stream_cid == Cid(json)
       IN  /\ puts' = Append(puts, PutRecord("stream", json, ok))
           /\ stdout' = IF ok /\ ~pin_stream
                        THEN Append(stdout, [line |-> "Unpinned Stream CID", cid |-> stream_cid])
                        ELSE stdout
    /\ nfail' = IF ok THEN nfail ELSE nfail + 1
    /\ pc' = IF ok /\ pin_stream THEN "finalize_pin" ELSE "recv"
    /\ UNCHANGED <<configVars, bufferVars, timecode, pins, countVars>>
    /\ UNCHANGED chatVars
    /\ UNCHANGED codecVars

finalize_pin(ok) ==
    /\ pc = "finalize_pin"
    /\ LET stream_cid == Cid(StreamJson(timecode))
       IN  /\ pins' = Append(pins, [cid |-> stream_cid, recursive |-> TRUE, ok |-> ok])
           /\ stdout' = IF ok
                        THEN Append(stdout, [line |-> "Pinned Stream CID", cid |-> stream_cid])
                        ELSE stdout
    /\ nfail' = IF ok THEN nfail ELSE nfail + 1
    /\ pc' = "recv"
    /\ UNCHANGED <<configVars, bufferVars, timecode, puts, countVars>>
    /\ UNCHANGED chatVars
    /\ UNCHANGED codecVars

\* the events a producer may send: fresh video cids count up from 1, and a
\* cid may repeat the previous one while the repeat budget lasts
VideoCids == {nvideo + 1} \cup (IF nvideo > 0 /\ nrepeat < MaxRepeat THEN {nvideo} ELSE {})

\* chats target the first video (buffered or already flushed) or one not yet archived
ChatTimestamps == {1, nvideo + 1}

\* a broadcast in progress against a CAS whose calls may fail
ChronNext ==
    \/ /\ nvideo < MaxVideo
       /\ \E cid \in VideoCids : archive_video_segment(cid)
    \/ /\ nfinal < MaxFinalize
       /\ finalize
    \/ \E ok \in Outcomes : collect_second(ok)
    \/ \E ok \in Outcomes : collect_minute(ok)
    \/ \E ok \in Outcomes : collect_hour(ok)
    \/ \E ok \in Outcomes : finalize_day(ok)
    \/ \E ok \in Outcomes : finalize_stream(ok)
    \/ \E ok \in Outcomes : finalize_pin(ok)

\* a broadcast in progress with chat: the put of a chat message may fail, the
\* puts of the tier flushes succeed
ChronChatNext ==
    \/ /\ nchat < MaxChat
       /\ \E timestamp \in ChatTimestamps, ok \in Outcomes :
              archive_chat_message(timestamp, ok)
    \/ /\ nvideo < MaxVideo
       /\ \E cid \in VideoCids : archive_video_segment(cid)
    \/ /\ nfinal < MaxFinalize
       /\ finalize
    \/ collect_second(TRUE)
    \/ collect_minute(TRUE)
    \/ collect_hour(TRUE)
    \/ finalize_day(TRUE)
    \/ finalize_stream(TRUE)
    \/ finalize_pin(TRUE)

\* a clean broadcast from start to the close of the queue: Video events with
\* fresh cids and Finalize, every CAS call succeeding
BroadcastNext ==
    \/ /\ nvideo < MaxBroadcast
       /\ archive_video_segment(nvideo + 1)
    \/ /\ nfinal < MaxFinalize
       /\ finalize
    \/ queue_closed
    \/ collect_second(TRUE)
    \/ collect_minute(TRUE)
    \/ collect_hour(TRUE)
    \/ finalize_day(TRUE)
    \/ finalize_stream(TRUE)
    \/ finalize_pin(TRUE)

\* config.video_segment_duration of the runs to the close of the queue: every
\* SecondNode fills a MinuteNode
ShutdownDurations == {60}

\* Finalize events handled in one run to the close of the queue
MaxShutdownFinalize == 2

\* config.video_segment_duration of the runs to the close of the queue against
\* a CAS whose every call may fail
QueueDurations == {8, 40}

\* a CAS call of the handler in progress returns, with either outcome
CasReturns ==
    \E ok \in BOOLEAN :
        \/ collect_second(ok)
        \/ collect_minute(ok)
        \/ collect_hour(ok)
        \/ finalize_day(ok)
        \/ finalize_stream(ok)
        \/ finalize_pin(ok)

\* a run to the close of the queue against a CAS whose every call may fail
QueueNext ==
    \/ /\ nvideo < MaxVideo
       /\ archive_video_segment(nvideo + 1)
    \/ /\ nfinal < MaxFinalize
       /\ finalize
    \/ queue_closed
    \/ CasReturns

\* config.video_segment_duration of the runs against a CAS that never fails
RerunDurations == {40}

\* a run of Chat, Video and Finalize events against a CAS that never fails
RerunNext ==
    \/ /\ nchat < MaxChat
       /\ \E timestamp \in ChatTimestamps : archive_chat_message(timestamp, TRUE)
    \/ /\ nvideo < MaxVideo
       /\ \E cid \in VideoCids : archive_video_segment(cid)
    \/ /\ nfinal < MaxFinalize
       /\ finalize
    \/ collect_second(TRUE)
    \/ collect_minute(TRUE)
    \/ collect_hour(TRUE)
    \/ finalize_day(TRUE)
    \/ finalize_stream(TRUE)
    \/ finalize_pin(TRUE)

\* a run to the close of the queue: Video events with fresh cids, before and
\* after Finalize events, every CAS call succeeding
ShutdownNext ==
    \/ /\ nvideo < MaxVideo
       /\ archive_video_segment(nvideo + 1)
    \/ /\ nfinal < MaxShutdownFinalize
       /\ finalize
    \/ queue_closed
    \/ collect_second(TRUE)
    \/ collect_minute(TRUE)
    \/ collect_hour(TRUE)
    \/ finalize_day(TRUE)
    \/ finalize_stream(TRUE)
    \/ finalize_pin(TRUE)

\* a long broadcast: segments of 60 seconds
DayDurations == {60}

\* Finalize events of the long broadcast
MaxDayFinalize == 25

\* Video events of the long broadcast after its last Finalize
MaxStreamVideo == 63

\* the CAS may fail the HourNode put that a Video event issues
DayOutcomes == IF pc = "video_collect_hour" THEN BOOLEAN ELSE {TRUE}

\* a long broadcast: one segment and a Finalize, MaxDayFinalize times over;
\* then segments only, with chat messages for the latest segment once the
\* hour buffer is one link short of full
DayNext ==
    \/ /\ nchat < MaxChat
       /\ nfinal = MaxDayFinalize
       /\ Len(hour_node) >= 59
       /\ archive_chat_message(nvideo, TRUE)
    \/ /\ \/ nfinal < MaxDayFinalize /\ video_chat_buffer = <<>>
          \/ nfinal = MaxDayFinalize /\ nvideo < MaxDayFinalize + MaxStreamVideo
       /\ archive_video_segment(nvideo + 1)
    \/ /\ nfinal < MaxDayFinalize
       /\ video_chat_buffer # <<>>
       /\ finalize
    \/ collect_second(TRUE)
    \/ collect_minute(TRUE)
    \/ \E ok \in DayOutcomes : collect_hour(ok)
    \/ finalize_day(TRUE)
    \/ finalize_stream(TRUE)
    \/ finalize_pin(TRUE)

(***************************************************************************)
(* The transport payload of the video topic (viewer-app/src/pubsub.rs).    *)
(* A Rust string is a sequence of Unicode scalar values held as UTF-8; the *)
(* data field of a frame is the Base64Pad text of those bytes.  Base64Pad  *)
(* is RFC 4648 base 64 with '=' padding, decoded strictly (length a        *)
(* multiple of four, padding only at the end, unused trailing bits zero).  *)
(***************************************************************************)
MaxLen == 3

\* one scalar value of each UTF-8 width: 'A', U+00E9, U+20AC, U+1F600
CodePoints == {65, 233, 8364, 128512}

Payloads == UNION {[1..n -> CodePoints] : n \in 0..MaxLen}

\* the bytes of one scalar value
Utf8Char(cp) ==
    IF cp < 128 THEN <<cp>>
    ELSE IF cp < 2048 THEN <<192 + cp \div 64, 128 + (cp % 64)>>
    ELSE IF cp < 65536
         THEN <<224 + cp \div 4096, 128 + ((cp \div 64) % 64), 128 + (cp % 64)>>
    ELSE <<240 + cp \div 262144, 128 + ((cp \div 4096) % 64),
           128 + ((cp \div 64) % 64), 128 + (cp % 64)>>

\* str::as_bytes: the bytes of a string
RECURSIVE as_bytes(_)
as_bytes(s) ==
    IF s = <<>> THEN <<>> ELSE Utf8Char(Head(s)) \o as_bytes(Tail(s))

IsContinuation(b) == b >= 128 /\ b <= 191

\* str::from_utf8: the string of a byte sequence, or an error
RECURSIVE from_utf8(_)
from_utf8(bytes) ==
    IF bytes = <<>> THEN [ok |-> TRUE, text |-> <<>>]
    ELSE LET b0 == bytes[1]
             width == IF b0 < 128 THEN 1
                      ELSE IF b0 >= 194 /\ b0 <= 223 THEN 2
                      ELSE IF b0 >= 224 /\ b0 <= 239 THEN 3
                      ELSE IF b0 >= 240 /\ b0 <= 244 THEN 4
                      ELSE 0
             wellFormed ==
                 /\ width > 0
                 /\ Len(bytes) >= width
                 /\ \A i \in 2..width : IsContinuation(bytes[i])
                 /\ (b0 = 224 => bytes[2] >= 160)
                 /\ (b0 = 237 => bytes[2] <= 159)
                 /\ (b0 = 240 => bytes[2] >= 144)
                 /\ (b0 = 244 => bytes[2] <= 143)
             cp == IF width = 1 THEN b0
                   ELSE IF width = 2 THEN (b0 - 192) * 64 + (bytes[2] - 128)
                   ELSE IF width = 3
                        THEN (b0 - 224) * 4096 + (bytes[2] - 128) * 64
                             + (bytes[3] - 128)
                   ELSE (b0 - 240) * 262144 + (bytes[2] - 128) * 4096
                        + (bytes[3] - 128) * 64 + (bytes[4] - 128)
         IN  IF ~wellFormed THEN [ok |-> FALSE, text |-> <<>>]
             ELSE LET rest == from_utf8(SubSeq(bytes, width + 1, Len(bytes)))
                  IN  IF rest.ok
                      THEN [ok |-> TRUE, text |-> <<cp>> \o rest.text]
                      ELSE [ok |-> FALSE, text |-> <<>>]

Base64Alphabet ==
    << "A", "B", "C", "D", "E", "F", "G", "H", "I", "J", "K", "L", "M",
       "N", "O", "P", "Q", "R", "S", "T", "U", "V", "W", "X", "Y", "Z",
       "a", "b", "c", "d", "e", "f", "g", "h", "i", "j", "k", "l", "m",
       "n", "o", "p", "q", "r", "s", "t", "u", "v", "w", "x", "y", "z",
       "0", "1", "2", "3", "4", "5", "6", "7", "8", "9", "+", "/" >>

Base64Symbol(v) == Base64Alphabet[v + 1]

Base64Value(c) == CHOOSE v \in 0..63 : Base64Alphabet[v + 1] = c

\* an encoder that leaves the padding out (Base64 instead of Base64Pad)
RECURSIVE Base64Encode_NoPad(_)
Base64Encode_NoPad(bytes) ==
    IF bytes = <<>> THEN <<>>
    ELSE IF Len(bytes) = 1
    THEN << Base64Symbol(bytes[1] \div 4), Base64Symbol((bytes[1] % 4) * 16) >>
    ELSE IF Len(bytes) = 2
    THEN << Base64Symbol(bytes[1] \div 4),
            Base64Symbol((bytes[1] % 4) * 16 + bytes[2] \div 16),
            Base64Symbol((bytes[2] % 16) * 4) >>
    ELSE << Base64Symbol(bytes[1] \div 4),
            Base64Symbol((bytes[1] % 4) * 16 + bytes[2] \div 16),
            Base64Symbol((bytes[2] % 16) * 4 + bytes[3] \div 64),
            Base64Symbol(bytes[3] % 64) >>
         \o Base64Encode_NoPad(SubSeq(bytes, 4, Len(bytes)))

\* Base::encode(&Base::Base64Pad, bytes): three bytes to four symbols, the
\* last group padded with '='
RECURSIVE Base64PadEncode(_)
Base64PadEncode(bytes) ==
    IF bytes = <<>> THEN <<>>
    ELSE IF Len(bytes) = 1
    THEN << Base64Symbol(bytes[1] \div 4), Base64Symbol((bytes[1] % 4) * 16),
            "=", "=" >>
    ELSE IF Len(bytes) = 2
    THEN << Base64Symbol(bytes[1] \div 4),
            Base64Symbol((bytes[1] % 4) * 16 + bytes[2] \div 16),
            Base64Symbol((bytes[2] % 16) * 4), "=" >>
    ELSE << Base64Symbol(bytes[1] \div 4),
            Base64Symbol((bytes[1] % 4) * 16 + bytes[2] \div 16),
            Base64Symbol((bytes[2] % 16) * 4 + bytes[3] \div 64),
            Base64Symbol(bytes[3] % 64) >>
         \o Base64PadEncode(SubSeq(bytes, 4, Len(bytes)))

\* the bytes of a sequence of 6-bit values
RECURSIVE Base64Bytes(_)
Base64Bytes(vals) ==
    IF Len(vals) < 2 THEN <<>>
    ELSE IF Len(vals) = 2 THEN << vals[1] * 4 + vals[2] \div 16 >>
    ELSE IF Len(vals) = 3
    THEN << vals[1] * 4 + vals[2] \div 16,
            (vals[2] % 16) * 16 + vals[3] \div 4 >>
    ELSE << vals[1] * 4 + vals[2] \div 16,
            (vals[2] % 16) * 16 + vals[3] \div 4,
            (vals[3] % 4) * 64 + vals[4] >>
         \o Base64Bytes(SubSeq(vals, 5, Len(vals)))

\* Base::decode(&Base::Base64Pad, symbols): the bytes, or an error
Base64PadDecode(symbols) ==
    LET n == Len(symbols)
        pad == IF n >= 2 /\ symbols[n] = "="
               THEN (IF symbols[n - 1] = "=" THEN 2 ELSE 1)
               ELSE 0
        body == SubSeq(symbols, 1, n - pad)
        vals == [i \in 1..Len(body) |-> Base64Value(body[i])]
        failed == [ok |-> FALSE, bytes |-> <<>>]
    IN  IF n % 4 # 0 THEN failed
        ELSE IF \E i \in 1..Len(body) :
                    body[i] \notin {Base64Alphabet[k] : k \in 1..64}
        THEN failed
        ELSE IF pad = 1 /\ vals[Len(vals)] % 4 # 0 THEN failed
        ELSE IF pad = 2 /\ vals[Len(vals)] % 16 # 0 THEN failed
        ELSE [ok |-> TRUE, bytes |-> Base64Bytes(vals)]

\* what one frame yields in the subscriber: the printed string, or the frame
\* is skipped
DecodeFrame(data) ==
    LET decoded == Base64PadDecode(data)
    IN  IF ~decoded.ok THEN [ok |-> FALSE, text |-> <<>>]
        ELSE from_utf8(decoded.bytes)

\* frames that no encoder of this program produced
ForeignSymbols == {"Q", "w", "=", "!"}

ForeignFrames == [1..4 -> ForeignSymbols]

\* nothing published, nothing received
CodecIdle ==
    /\ input = <<>>
    /\ encoded = <<>>
    /\ output = [ok |-> FALSE, text |-> <<>>]
    /\ codec_pc = "idle"

\* a payload about to be published
CodecInit ==
    /\ input \in Payloads
    /\ encoded = <<>>
    /\ output = [ok |-> FALSE, text |-> <<>>]
    /\ codec_pc = "idle"

\* the publisher puts the Base64Pad text of the payload in the data field
encode_frame ==
    /\ codec_pc = "idle"
    /\ encoded' = Base64PadEncode(as_bytes(input))
    /\ codec_pc' = "sent"
    /\ UNCHANGED <<input, output>>
    /\ UNCHANGED chatVars
    /\ UNCHANGED chronVars

\* a frame of another publisher arrives on the topic
foreign_frame(data) ==
    /\ codec_pc = "idle"
    /\ encoded' = data
    /\ codec_pc' = "foreign"
    /\ UNCHANGED <<input, output>>
    /\ UNCHANGED chatVars
    /\ UNCHANGED chronVars

\* one turn of the subscriber's loop on the frame in flight
pubsub_sub_frame ==
    /\ codec_pc \in {"sent", "foreign"}
    /\ output' = DecodeFrame(encoded)
    /\ codec_pc' = IF codec_pc = "sent" THEN "decoded" ELSE "decoded_foreign"
    /\ UNCHANGED <<input, encoded>>
    /\ UNCHANGED chatVars
    /\ UNCHANGED chronVars

CodecNext ==
    \/ encode_frame
    \/ \E data \in ForeignFrames : foreign_frame(data)
    \/ pubsub_sub_frame

(***************************************************************************)
(* Specifications.  The two components run in different processes and      *)
(* share no state: each specification runs one and leaves the other as     *)
(* constructed.                                                            *)
(***************************************************************************)
vars == <<chatVars, chronVars, codecVars>>

\* a broadcast in progress
ChronInit == ChroniclerNew(Durations, BOOLEAN)

ChronChatInit == ChroniclerNew(ChatDurations, {TRUE})

BroadcastInit == ChroniclerNew(BroadcastDurations, BOOLEAN)

\* the Chronicler as constructed with video_segment_duration = 4
ChronIdle ==
    /\ ChroniclerNew({4}, {FALSE})
    /\ second_cap = 120 \div segment_duration

\* both components as constructed
InitChat == ChatInit /\ ChronIdle /\ CodecIdle

InitChron == ChronInit /\ ChatInit /\ CodecIdle

InitChronChat == ChronChatInit /\ ChatInit /\ CodecIdle

InitBroadcast == BroadcastInit /\ ChatInit /\ CodecIdle

InitShutdown == ChroniclerNew(ShutdownDurations, BOOLEAN) /\ ChatInit /\ CodecIdle

InitQueue == ChroniclerNew(QueueDurations, {TRUE}) /\ ChatInit /\ CodecIdle

InitRerun == ChroniclerNew(RerunDurations, {TRUE}) /\ ChatInit /\ CodecIdle

InitDay == ChroniclerNew(DayDurations, {TRUE}) /\ ChatInit /\ CodecIdle

InitCodec == ChatInit /\ ChronIdle /\ CodecInit

SpecChat == InitChat /\ [][ChatNext]_vars

SpecSub == InitChat /\ [][SubNext]_vars

SpecDisplay == InitChat /\ [][DisplayNext]_vars

SpecChron == InitChron /\ [][ChronNext]_vars

SpecChronChat == InitChronChat /\ [][ChronChatNext]_vars

SpecBroadcast == InitBroadcast /\ [][BroadcastNext]_vars

SpecShutdown == InitShutdown /\ [][ShutdownNext]_vars

SpecRerun == InitRerun /\ [][RerunNext]_vars

\* every CAS call returns, and the producers close the queue once they have
\* sent their events
SpecQueue ==
    /\ InitQueue
    /\ [][QueueNext]_vars
    /\ WF_vars(CasReturns)
    /\ WF_vars(queue_closed)

(***************************************************************************)
(* Chronicler: properties.                                                 *)
(***************************************************************************)
\* the successful puts of one kind of node, in the order they were issued
Written(kind) == SelectSeq(puts, LAMBDA p : p.kind = kind /\ p.ok)

\* a put of one of the kinds in kinds has failed
SomePutFailed(kinds) == \E k \in 1..Len(puts) : puts[k].kind \in kinds /\ ~puts[k].ok

\* the handler of a Finalize event has returned and no event came after it
FinalizeReturned == pc \in {"recv", "returned"} /\ last_event.kind = "Finalize"

\* the step issues one dag_put, of a node of this kind, and the put fails
PutFails(kind) ==
    /\ Len(puts') = Len(puts) + 1
    /\ puts'[Len(puts')].kind = kind
    /\ ~puts'[Len(puts')].ok

CeilDiv(a, b) == (a + b - 1) \div b

RECURSIVE TotalSlots(_)
TotalSlots(minutes) ==
    IF minutes = <<>> THEN 0
    ELSE Len(Head(minutes).json.links_to_seconds) + TotalSlots(Tail(minutes))

\* slots of the written MinuteNodes that hold link
RECURSIVE SlotsHolding(_, _)
SlotsHolding(minutes, link) ==
    IF minutes = <<>> THEN 0
    ELSE Cardinality({k \in 1..Len(Head(minutes).json.links_to_seconds) :
                          Head(minutes).json.links_to_seconds[k] = link})
         + SlotsHolding(Tail(minutes), link)

\* C6: with every put succeeding and segment_duration d dividing 60, n Video
\* events followed by Finalize write n SecondNodes and ceil(n*d/60)
\* MinuteNodes, all but the last of 60 slots; for d = 4 and n = 30: two
\* MinuteNodes of 60 slots, no HourNode before Finalize, then one HourNode
\* with 2 minute links and one DayNode with 1 hour link.
C6_MinuteNodesOfSixtySlots ==
    (FinalizeReturned /\ nfinal = 1 /\ 60 % segment_duration = 0)
    => LET minutes == Written("minute")
           hours   == Written("hour")
           days    == Written("day")
       IN  /\ Len(Written("second")) = nvideo
           /\ Len(minutes) = CeilDiv(nvideo * segment_duration, 60)
           /\ \A k \in 1..(Len(minutes) - 1) : Len(minutes[k].json.links_to_seconds) = 60
           /\ (segment_duration = 4 /\ nvideo = 30)
              => /\ Len(minutes) = 2
                 /\ \A k \in 1..Len(minutes) : Len(minutes[k].json.links_to_seconds) = 60
                 /\ \A k \in 1..Len(hours) : hours[k].event = nevents
                 /\ Len(hours) = 1
                 /\ Len(hours[1].json.links_to_minutes) = 2
                 /\ Len(days) = 1
                 /\ Len(days[1].json.links_to_hours) = 1

\* C7: when the put of a tier flush fails, the flushed buffer holds the same
\* entries after the flush as before it (the head SecondNode is still in the
\* second buffer) and nothing is appended to the parent tier's buffer.
C7_FailedFlushKeepsBuffer ==
    [][/\ PutFails("second") => (video_chat_buffer' = video_chat_buffer
                                 /\ minute_node' = minute_node)
       /\ PutFails("minute") => (minute_node' = minute_node /\ hour_node' = hour_node)
       /\ PutFails("hour") => (hour_node' = hour_node /\ day_node' = day_node)]_vars

\* C8: after Finalize, whatever SecondNode puts failed (the MinuteNode,
\* HourNode and DayNode puts succeeding), every SecondNode cid fills d slots
\* of the written MinuteNodes per successful put of it, and the written
\* MinuteNodes hold S * d slots in total, S the SecondNodes written.
C8_MinuteSlotsMatchSeconds ==
    (FinalizeReturned /\ ~SomePutFailed({"minute", "hour", "day"}))
    => LET seconds == Written("second")
           minutes == Written("minute")
       IN  /\ TotalSlots(minutes) = Len(seconds) * segment_duration
           /\ \A k \in 1..Len(seconds) :
                  SlotsHolding(minutes, IPLDLink(Cid(seconds[k].json)))
                      = segment_duration
                        * Cardinality({j \in 1..Len(seconds) : seconds[j].json = seconds[k].json})

\* a Finalize has returned after a SecondNode put failed and others succeeded
C8_Witness ==
    /\ FinalizeReturned
    /\ ~SomePutFailed({"minute", "hour", "day"})
    /\ SomePutFailed({"second"})
    /\ Len(Written("second")) >= 2
    /\ Len(Written("minute")) >= 1

\* C9: with every put succeeding, in every state the second buffer holds at
\* most 120/d SecondNodes, the minute and hour buffers at most 60 links, and
\* no MinuteNode or HourNode written has more than 60 slots.
C9_BuffersWithinCapacity ==
    ~SomePutFailed({"chat", "second", "minute", "hour", "day", "stream"})
    => /\ Len(video_chat_buffer) <= 120 \div segment_duration
       /\ Len(minute_node) <= 60
       /\ Len(hour_node) <= 60
       /\ \A k \in 1..Len(puts) :
              /\ puts[k].kind = "minute" => Len(puts[k].json.links_to_seconds) <= 60
              /\ puts[k].kind = "hour" => Len(puts[k].json.links_to_minutes) <= 60

\* the chat message a chat link points at
ChatOfLink(link) == link.link[2]

\* C10: a Chat event whose put succeeds appends one chat link to one
\* SecondNode, the oldest buffered one whose video link equals the timestamp,
\* at the tail of its chat list; so the chat list of every written SecondNode
\* holds only chats received while the node was buffered, in arrival order.
C10_ChatJoinsOldestMatch ==
    /\ [][(/\ Len(puts') = Len(puts) + 1
           /\ puts'[Len(puts')].kind = "chat"
           /\ puts'[Len(puts')].ok)
          => LET msg  == puts'[Len(puts')].json
                 hits == {k \in 1..Len(video_chat_buffer) :
                              video_chat_buffer[k].link_to_video = msg.data.timestamp}
             IN  \E k \in hits :
                     /\ \A j \in hits : k <= j
                     /\ video_chat_buffer' =
                            [video_chat_buffer EXCEPT ![k].links_to_chat =
                                                          Append(@, IPLDLink(Cid(msg)))]]_vars
    /\ [](\A k \in 1..Len(puts) :
              (puts[k].kind = "second" /\ puts[k].ok)
              => LET chats == puts[k].json.links_to_chat
                 IN  /\ \A c \in 1..Len(chats) :
                            /\ ChatOfLink(chats[c]).data.timestamp = puts[k].json.link_to_video
                            /\ ChatOfLink(chats[c]).data.message > puts[k].born
                            /\ ChatOfLink(chats[c]).data.message < puts[k].event
                     /\ \A c, e \in 1..Len(chats) :
                            c < e => ChatOfLink(chats[c]).data.message
                                         < ChatOfLink(chats[e]).data.message)

\* two buffered SecondNodes link the same video; the older one holds two
\* chats, the younger none
C10_Witness ==
    \E k, j \in 1..Len(video_chat_buffer) :
        /\ k < j
        /\ video_chat_buffer[k].link_to_video = video_chat_buffer[j].link_to_video
        /\ Len(video_chat_buffer[k].links_to_chat) = 2
        /\ video_chat_buffer[j].links_to_chat = <<>>

\* the step handles a Chat event
ChatStep == nchat' = nchat + 1

\* the chat links held by the SecondNodes of a second buffer
ChatLinksIn(buffer) ==
    UNION {{buffer[k].links_to_chat[c] : c \in 1..Len(buffer[k].links_to_chat)} :
               k \in 1..Len(buffer)}

\* C11: a Chat event issues no put when no buffered SecondNode matches its
\* timestamp; when nothing matches or the put fails, the second, minute, hour
\* and day buffers are unchanged; a successful put changes the second buffer
\* only; and a chat link enters the second buffer only during its own event.
C11_ChatChangesOnlyByAttaching ==
    [][/\ ChatStep
          => LET timestamp == IPLDLink(last_event'.arg)
                 matched   == \E k \in 1..Len(video_chat_buffer) :
                                  video_chat_buffer[k].link_to_video = timestamp
                 put_ok    == Len(puts') = Len(puts) + 1 /\ puts'[Len(puts')].ok
             IN  /\ ~matched => puts' = puts
                 /\ (~matched \/ ~put_ok) => video_chat_buffer' = video_chat_buffer
                 /\ Len(puts') <= Len(puts) + 1
                 /\ Len(video_chat_buffer') = Len(video_chat_buffer)
                 /\ <<minute_node, hour_node, day_node>>' = <<minute_node, hour_node, day_node>>
       /\ \A link \in ChatLinksIn(video_chat_buffer') \ ChatLinksIn(video_chat_buffer) :
              /\ ChatStep
              /\ ChatOfLink(link).data.message = nevents']_vars

\* a Chat event for video 1 was dropped without a put after the SecondNode of
\* video 1 was written, and the put of another chat has failed
C11_Witness ==
    /\ last_event = [kind |-> "Chat", arg |-> 1]
    /\ \E k \in 1..Len(puts) : /\ puts[k].kind = "second"
                               /\ puts[k].ok
                               /\ puts[k].json.link_to_video = IPLDLink(1)
    /\ \A k \in 1..Len(video_chat_buffer) : video_chat_buffer[k].link_to_video # IPLDLink(1)
    /\ \A k \in 1..Len(puts) : puts[k].event # nevents
    /\ \E k \in 1..Len(puts) : puts[k].kind = "chat" /\ ~puts[k].ok

\* the second links of MinuteNodes, read in write order and slot order
RECURSIVE SecondLinksOf(_)
SecondLinksOf(minutes) ==
    IF minutes = <<>> THEN <<>>
    ELSE Head(minutes).json.links_to_seconds \o SecondLinksOf(Tail(minutes))

\* the minute links of HourNodes, read in write order and slot order
RECURSIVE MinuteLinksOf(_)
MinuteLinksOf(hours) ==
    IF hours = <<>> THEN <<>>
    ELSE Head(hours).json.links_to_minutes \o MinuteLinksOf(Tail(hours))

\* the link of every SecondNode put, d times each, in put order
RECURSIVE SlotsOfSeconds(_, _)
SlotsOfSeconds(seconds, d) ==
    IF seconds = <<>> THEN <<>>
    ELSE [k \in 1..d |-> IPLDLink(Cid(Head(seconds).json))] \o SlotsOfSeconds(Tail(seconds), d)

\* the link of every node put, in put order
LinksOfPuts(nodes) == [k \in 1..Len(nodes) |-> IPLDLink(Cid(nodes[k].json))]

IsPrefix(s, t) == Len(s) <= Len(t) /\ s = SubSeq(t, 1, Len(s))

\* C12: with every put succeeding, the k-th SecondNode put is the one of the
\* k-th Video event; the second links over the written MinuteNodes and the
\* minute buffer, the minute links over the written HourNodes and the hour
\* buffer, and the hour links of the day buffer and of every DayNode list the
\* child nodes in put order with none left out; after Finalize every Video
\* event's SecondNode is written and the minute and hour buffers are empty.
C12_NodesLinkedInFlushOrder ==
    LET seconds == Written("second")
        minutes == Written("minute")
        hours   == Written("hour")
        days    == Written("day")
    IN  /\ \A k \in 1..Len(seconds) : seconds[k].json.link_to_video = IPLDLink(k)
        /\ SecondLinksOf(minutes) \o minute_node = SlotsOfSeconds(seconds, segment_duration)
        /\ MinuteLinksOf(hours) \o hour_node = LinksOfPuts(minutes)
        /\ day_node = LinksOfPuts(hours)
        /\ \A k \in 1..Len(days) : IsPrefix(days[k].json.links_to_hours, LinksOfPuts(hours))
        /\ FinalizeReturned
           => /\ Len(seconds) = nvideo
              /\ minute_node = <<>>
              /\ hour_node = <<>>
              /\ days # <<>>
              /\ days[Len(days)].json.links_to_hours = LinksOfPuts(hours)

\* a Finalize has returned after SecondNodes went into two MinuteNodes, one
\* written on a Video event and one on Finalize, linked from one HourNode
C12_Witness ==
    /\ FinalizeReturned
    /\ Len(Written("second")) >= 4
    /\ Len(Written("minute")) = 2
    /\ Written("minute")[1].event < nevents
    /\ Len(Written("hour")) = 1
    /\ Len(Written("hour")[1].json.links_to_minutes) = 2

\* the puts of one kind of node, successful or not
Issued(kind) == SelectSeq(puts, LAMBDA p : p.kind = kind)

\* C13: a StreamNode is put only while a Finalize event is handled and at
\* most once in a run, however many Finalize events are enqueued and whether
\* or not Video events follow a Finalize; a run that reaches the close of the
\* queue without a Finalize has put no DayNode and no StreamNode.
C13_StreamNodePutAtMostOnce ==
    /\ [][(Len(Issued("stream")') > Len(Issued("stream")))
          => (last_event.kind = "Finalize" /\ pc = "finalize_stream")]_vars
    /\ [](/\ Len(Issued("stream")) <= 1
          /\ (pc = "returned" /\ nfinal = 0)
             => (Issued("day") = <<>> /\ Issued("stream") = <<>>))

\* C14: once the handler of a Finalize has returned, the out-channel holds
\* the stream cid of every StreamNode put that succeeded, in order, whether
\* pin_stream is disabled, or enabled with the pin succeeding or failing; a
\* pin is requested only with pin_stream enabled, recursively, and only for
\* the cid of a StreamNode whose put succeeded.
C14_StreamCidAlwaysEmitted ==
    LET streams == Written("stream")
    IN  /\ pc \in {"recv", "returned"}
           => /\ Len(stdout) = Len(streams)
              /\ \A k \in 1..Len(streams) : stdout[k].cid = Cid(streams[k].json)
        /\ Len(pins) <= Len(streams)
        /\ \A k \in 1..Len(pins) : /\ pin_stream
                                   /\ pins[k].recursive
                                   /\ pins[k].cid = Cid(streams[k].json)

\* C15: once the handler of a Finalize has returned with every put having
\* succeeded, the second, minute, hour and day buffers are all empty.
C15_BuffersEmptyAfterFinalize ==
    (FinalizeReturned /\ ~SomePutFailed({"second", "minute", "hour", "day", "stream"}))
    => /\ video_chat_buffer = <<>>
       /\ minute_node = <<>>
       /\ hour_node = <<>>
       /\ day_node = <<>>

\* C16: when the dag_get of origin C completes with an error, nothing is
\* emitted or cached and no entry parked for C is left in the parking lot.
C16_FailedGetDropsParked ==
    (last_call.handler = "signed" /\ ~last_call.ok)
    => /\ Len(emitted) = last_call.shown
       /\ DOMAIN trusted_identities = last_call.cached
       /\ \A j \in 1..Len(msg_buffer) : msg_buffer[j].msg.origin # last_call.cid

\* C17: a frame from sender P with origin C is emitted at once iff C is in
\* the identity cache with peer_id P, and then nothing is parked or fetched;
\* in every other case nothing is emitted, (P, msg) is appended to the
\* parking lot and one dag_get of C is scheduled.
C17_EmitOrPark ==
    [][(nframes' = nframes + 1 /\ last_call'.handler = "pubsub")
       => LET c    == last_call'.cid
              from == last_call'.from
              hit  == /\ c \in DOMAIN trusted_identities
                      /\ trusted_identities[c][2].peer_id = from
          IN  /\ hit => /\ Len(emitted') = Len(emitted) + 1
                        /\ emitted'[Len(emitted')].sender = from
                        /\ emitted'[Len(emitted')].origin = c
                        /\ msg_buffer' = msg_buffer
                        /\ pending_gets' = pending_gets
              /\ ~hit => /\ emitted' = emitted
                         /\ Len(msg_buffer') = Len(msg_buffer) + 1
                         /\ SubSeq(msg_buffer', 1, Len(msg_buffer)) = msg_buffer
                         /\ msg_buffer'[Len(msg_buffer')].peer_id = from
                         /\ msg_buffer'[Len(msg_buffer')].msg.origin = c
                         /\ pending_gets' = [pending_gets EXCEPT ![c] = @ + 1]]_vars

\* C18: a malformed transport frame (a line that is not the JSON of a frame,
\* a from or data field that is not base64, a payload that is not an
\* UnsignedMessage) does not end the subscription: until the drop signal is
\* set the frame loop is still running after it, and the next well-formed
\* frame is delivered.
C18_MalformedFrameKeepsSubscription ==
    (last_call.handler \in {"pubsub_err", "pubsub_sub_err"} /\ ~drop_sig) => sub_open

\* C19: once the drop signal is set, no frame is delivered to the callback,
\* and the frame loop returns at the first frame it reads.
C19_DropSignalEndsFrameLoop ==
    /\ [][drop_sig
          => /\ nframes' = nframes
             /\ received' = received
             /\ ncalls' # ncalls => last_call'.handler = "signed"
             /\ sub_open' => sub_open]_vars
    /\ []((drop_sig /\ sub_open /\ ~hung) => ENABLED pubsub_sub_dropped)
    /\ []((drop_sig /\ ~hung) => ~ENABLED (\/ on_pubsub_update_err
                                           \/ pubsub_sub_err
                                           \/ \E from \in Peers, origin \in Cids, text \in Texts :
                                                  on_pubsub_update(from, [message |-> text,
                                                                          origin |-> origin])))

\* frames were delivered, then the drop signal was set and the frame loop
\* returned on the next read, with fewer frames delivered than the run allows
C19_Witness ==
    /\ drop_sig
    /\ ~sub_open
    /\ last_call.handler = "pubsub"
    /\ nframes >= 2
    /\ nframes < MaxFrames

\* C20: the display queue never holds more than 10 messages, and it holds
\* the most recently emitted messages, in emission order: its k-th entry from
\* the tail is the k-th most recent emission.
C20_QueueHoldsMostRecent ==
    LET n == Len(chat_messages)
        e == Len(emitted)
    IN  /\ n <= 10
        /\ n <= e
        /\ \A j \in 1..n :
               LET m == emitted[e - n + j]
               IN  chat_messages[j] =
                       MessageData(e - n + j - 1, SignedMessageOf(m.origin).address,
                                   SignedMessageOf(m.origin).data.name, m.message)

\* eleven messages were emitted, by the cache path and by on_signed_msg, and
\* the oldest ones have left the queue
C20_Witness ==
    /\ Len(emitted) = 11
    /\ Len(chat_messages) < Len(emitted)
    /\ chat_messages[1].id > 0
    /\ \E k \in 1..Len(emitted) : emitted[k].via = "cache"
    /\ \E k \in 1..Len(emitted) : emitted[k].via = "signed"

\* the links a MinuteNode or HourNode put carries
LinksOfTier(p) ==
    IF p.kind = "minute" THEN p.json.links_to_seconds ELSE p.json.links_to_minutes

\* C21: after the put of a MinuteNode or HourNode has failed, no later event
\* issues a put of a node of that tier built from the links the failed put
\* carried.
C21_FailedFlushNeverRetried ==
    \A j, k \in 1..Len(puts) :
        (/\ j < k
         /\ puts[j].kind \in {"minute", "hour"}
         /\ puts[k].kind = puts[j].kind
         /\ ~puts[j].ok
         /\ puts[k].event > puts[j].event)
        => ~IsPrefix(LinksOfTier(puts[j]), LinksOfTier(puts[k]))

(***************************************************************************)
(* A second run of the Chronicler, as a function of its inputs: the event  *)
(* sequence, segment_duration and the capacity of the second buffer.  Each *)
(* event is handled whole, every put succeeding.                           *)
(***************************************************************************)
RerunStart ==
    [buffer |-> <<>>, minute |-> <<>>, mcap |-> 60, hour |-> <<>>, hcap |-> 60,
     day |-> <<>>, written |-> <<>>, out |-> <<>>]

RerunPut(st, kind, json) == Append(st.written, [kind |-> kind, json |-> json])

RerunSecond(st, d) ==
    LET json == Head(st.buffer)
        link == IPLDLink(Cid(json))
    IN  [st EXCEPT !.buffer = Tail(st.buffer),
                   !.written = RerunPut(st, "second", json),
                   !.minute = st.minute \o [k \in 1..d |-> link],
                   !.mcap = VecCapAfterPushes(Len(st.minute), st.mcap, d)]

RerunMinute(st) ==
    LET json == MinuteJson(st.minute)
    IN  [st EXCEPT !.written = RerunPut(st, "minute", json),
                   !.minute = <<>>,
                   !.hour = Append(st.hour, IPLDLink(Cid(json))),
                   !.hcap = VecCapAfterPush(Len(st.hour), st.hcap)]

RerunHour(st) ==
    LET json == HourJson(st.hour)
    IN  [st EXCEPT !.written = RerunPut(st, "hour", json),
                   !.hour = <<>>,
                   !.day = Append(st.day, IPLDLink(Cid(json)))]

RerunVideo(st, cid, d, cap) ==
    LET pushed == [st EXCEPT !.buffer = Append(st.buffer, [link_to_video |-> IPLDLink(cid),
                                                           links_to_chat |-> <<>>])]
    IN  IF Len(pushed.buffer) < cap THEN pushed
        ELSE LET s1 == RerunSecond(pushed, d)
             IN  IF Len(s1.minute) < s1.mcap THEN s1
                 ELSE LET s2 == RerunMinute(s1)
                      IN  IF Len(s2.hour) < s2.hcap THEN s2 ELSE RerunHour(s2)

RerunChat(st, timestamp, n) ==
    LET msg  == [data |-> [timestamp |-> IPLDLink(timestamp), message |-> n]]
        hits == {k \in 1..Len(st.buffer) : st.buffer[k].link_to_video = msg.data.timestamp}
    IN  IF hits = {} THEN st
        ELSE LET slot == CHOOSE k \in hits : \A j \in hits : k <= j
             IN  [st EXCEPT !.written = RerunPut(st, "chat", msg),
                            !.buffer[slot].links_to_chat = Append(@, IPLDLink(Cid(msg)))]

RECURSIVE RerunDrain(_, _)
RerunDrain(st, d) == IF st.buffer = <<>> THEN st ELSE RerunDrain(RerunSecond(st, d), d)

RerunFinalize(st, d) ==
    LET s1     == RerunDrain(st, d)
        s2     == IF s1.minute # <<>> THEN RerunMinute(s1) ELSE s1
        s3     == IF s2.hour # <<>> THEN RerunHour(s2) ELSE s2
        day    == DayJson(s3.day)
        stream == StreamJson(Cid(day))
    IN  [s3 EXCEPT !.written = RerunPut(s3, "day", day) \o <<[kind |-> "stream", json |-> stream]>>,
                   !.out = Append(s3.out, Cid(stream))]

\* the run over the first n events of events
RECURSIVE Rerun(_, _, _, _)
Rerun(events, n, d, cap) ==
    IF n = 0 THEN RerunStart
    ELSE LET st == Rerun(events, n - 1, d, cap)
             e  == events[n]
         IN  CASE e.kind = "Chat"  -> RerunChat(st, e.arg, n)
               [] e.kind = "Video" -> RerunVideo(st, e.arg, d, cap)
               [] OTHER            -> RerunFinalize(st, d)

C23_CollectReturns ==
    /\ (pc \notin {"recv", "returned"}) ~> (pc = "recv")
    /\ <>(pc = "returned")

\* collect has returned after a Finalize whose drain loop ran over three
\* SecondNodes with every SecondNode put failing
C23_Witness ==
    /\ pc = "returned"
    /\ nfinal = 1
    /\ Len(Issued("second")) = 3
    /\ Written("second") = <<>>
    /\ \A k \in 1..Len(puts) : puts[k].kind = "second" => puts[k].event = nevents

\* C24: a frame whose data field is the Base64Pad encoding of a payload s
\* is decoded by the subscriber (Base64Pad decode, then from_utf8) to
\* exactly s, for every payload s.
C24_PayloadRoundTrip ==
    codec_pc = "decoded" => output = [ok |-> TRUE, text |-> input]

\* a payload with a multi-byte character whose encoding ends in padding
\* has made the round trip
C24_Witness ==
    /\ codec_pc = "decoded"
    /\ \E i \in 1..Len(input) : input[i] > 127
    /\ encoded[Len(encoded)] = "="
    /\ output.ok
    /\ output.text = input

SpecCodec == InitCodec /\ [][CodecNext]_vars

\* entries of a parking lot parked for an origin other than c
ParkedForOthers(buf, c) == {buf[j] : j \in {i \in 1..Len(buf) : buf[i].msg.origin # c}}

\* C25: after on_signed_msg(C, Ok(signed)) has returned, no entry of the
\* parking lot has origin C (mismatched and unverified ones are discarded, not
\* parked again), and the entries parked for other origins are the ones that
\* were there before, unchanged.
C25_ArrivalClearsItsOrigin ==
    (LastWasSignedOk /\ ~hung)
    => /\ \A j \in 1..Len(msg_buffer) : msg_buffer[j].msg.origin # last_call.cid
       /\ ParkedForOthers(msg_buffer, last_call.cid)
              = ParkedForOthers(last_call.parked, last_call.cid)
       /\ Len(msg_buffer) = Cardinality(ParkedForOthers(last_call.parked, last_call.cid))

\* on_signed_msg returned after finding two entries parked for C, one of them
\* from a sender the record does not name: that entry was not emitted and is
\* no longer parked
C25_Witness ==
    /\ LastWasSignedOk
    /\ ~hung
    /\ Len(last_call.parked) >= 2
    /\ \E j \in ParkedFor(last_call.cid) :
           /\ last_call.parked[j].peer_id # LastSigned.data.peer_id
           /\ TimesEmitted(last_call.parked[j].frame) = 0
           /\ \A i \in 1..Len(msg_buffer) : msg_buffer[i] # last_call.parked[j]

\* C27: identity-cache entries are write-once: no handler removes an entry,
\* and a later arrival for the same cid leaves the cached (address, data) as
\* it was.
C27_CacheEntriesWriteOnce ==
    [][\A c \in DOMAIN trusted_identities :
           /\ c \in DOMAIN trusted_identities'
           /\ trusted_identities'[c] = trusted_identities[c]]_vars

\* a second completion of the dag_get of a cached cid returned and inserted again
C27_Witness ==
    /\ LastWasSignedOk
    /\ ~hung
    /\ verify(LastSigned)
    /\ last_call.cid \in last_call.cached
    /\ Cardinality(last_call.cached) >= 2
    /\ trusted_identities[last_call.cid] = <<LastSigned.address, LastSigned.data>>

\* C28: on_signed_msg returns whatever the parking lot holds, also when the
\* entry it scans is parked for another origin than the cid that arrived, so
\* later frames and arrivals are still handled.
C28_OnSignedMsgReturns ==
    hung = FALSE

\* C29: after every handler the display queue holds exactly min(k, 9)
\* messages, k being the number of messages emitted so far.
C29_QueueLengthIsMinOfEmittedAndNine ==
    Len(chat_messages) = (IF Len(emitted) < 9 THEN Len(emitted) ELSE 9)

\* eleven messages were emitted, the tenth and eleventh each evicting the head
C29_Witness ==
    /\ Len(emitted) = 11
    /\ Len(chat_messages) = 9
    /\ chat_messages[1].id = 2
    /\ chat_messages[9].id = 10

SpecDay == InitDay /\ [][DayNext]_vars

\* C26: no DayNode or StreamNode is put while a Video or Chat event is
\* handled; the day buffer changes only by gaining the link of an HourNode
\* whose put has just succeeded, and every successful HourNode put appends
\* one link, the 25th like the others.
C26_DayBufferGrowsByHourFlushes ==
    [][/\ (/\ Len(puts') = Len(puts) + 1
           /\ puts'[Len(puts')].kind \in {"day", "stream"})
          => /\ last_event'.kind = "Finalize"
             /\ log'[puts'[Len(puts')].event].kind = "Finalize"
       /\ day_node' # day_node
             => /\ Len(puts') = Len(puts) + 1
                /\ puts'[Len(puts')].kind = "hour"
                /\ puts'[Len(puts')].ok
                /\ day_node' = Append(day_node, IPLDLink(Cid(puts'[Len(puts')].json)))
       /\ (/\ Len(puts') = Len(puts) + 1
           /\ puts'[Len(puts')].kind = "hour"
           /\ puts'[Len(puts')].ok)
          => Len(day_node') = Len(day_node) + 1]_vars

\* the day buffer took its 25th link from the HourNode of a Finalize, and
\* then a Video event filled the hour buffer, after a chat message, and its
\* HourNode became the 26th link
C26_Witness ==
    /\ Len(day_node) = 26
    /\ last_event.kind = "Video"
    /\ puts[Len(puts)].kind = "hour"
    /\ puts[Len(puts)].ok
    /\ day_node[26] = IPLDLink(Cid(puts[Len(puts)].json))
    /\ nchat > 0

====
